---- MODULE Spec2Model ----
(***************************************************************************)
(* Menu-item resolution engine of backend_server/models/resturant_calories *)
(* (query composition, candidate scoring, brand lock, bounded refinement,  *)
(* shared result cache, concurrent batch runner) and its two callers, the  *)
(* CLI pipeline and the HTTP endpoint.                                     *)
(*                                                                         *)
(* Text is modelled by TLA+ strings, character by character: lower(),      *)
(* strip(), substring tests and the regular expressions of the source are  *)
(* computed on the characters.  Python's None and "" are both modelled by  *)
(* "" for str values (every use in the source is a truthiness test or      *)
(* `x or ''`); an optional dict is a sequence of length 0 (None) or 1.     *)
(***************************************************************************)
EXTENDS Integers, Sequences, FiniteSets, TLC

\* ------------------------------------------------------------------ text

UPPER == "ABCDEFGHIJKLMNOPQRSTUVWXYZ"

LOWER == "abcdefghijklmnopqrstuvwxyz"

DIGITS == "0123456789"

CharAt(s, i) == SubSeq(s, i, i)

CharSet(s) == {CharAt(s, i) : i \in 1..Len(s)}

IsDigit(c) == c \in CharSet(DIGITS)

\* \w of the re module, on the ASCII text of the model
IsWordChar(c) == c \in CharSet(UPPER) \cup CharSet(LOWER) \cup CharSet(DIGITS) \cup {"_"}

IsSpace(c) == c = " "

LowerChar(c) ==
    IF c \in CharSet(UPPER)
    THEN CharAt(LOWER, CHOOSE i \in 1..Len(UPPER) : CharAt(UPPER, i) = c)
    ELSE c

UpperChar(c) ==
    IF c \in CharSet(LOWER)
    THEN CharAt(UPPER, CHOOSE i \in 1..Len(LOWER) : CharAt(LOWER, i) = c)
    ELSE c

RECURSIVE Lower(_)
\* str.lower()
Lower(s) == IF Len(s) = 0 THEN "" ELSE LowerChar(Head(s)) \o Lower(Tail(s))

RECURSIVE LStrip(_)
LStrip(s) == IF Len(s) > 0 /\ IsSpace(Head(s)) THEN LStrip(Tail(s)) ELSE s

RECURSIVE RStrip(_)
RStrip(s) ==
    IF Len(s) > 0 /\ IsSpace(CharAt(s, Len(s)))
    THEN RStrip(SubSeq(s, 1, Len(s) - 1))
    ELSE s

\* str.strip()
Strip(s) == RStrip(LStrip(s))

\* `kw in s` on str
Contains(kw, s) ==
    \E i \in 1..(Len(s) - Len(kw) + 1) : SubSeq(s, i, i + Len(kw) - 1) = kw

\* any(k in s for k in kws)
ContainsAny(kws, s) == \E k \in kws : Contains(k, s)

\* str.title() on a single lowercase word
Title(s) == IF Len(s) = 0 THEN "" ELSE UpperChar(Head(s)) \o Tail(s)

RECURSIVE KeepAlnum(_)
KeepAlnum(s) ==
    IF Len(s) = 0 THEN ""
    ELSE IF Head(s) \in CharSet(LOWER) \cup CharSet(DIGITS)
         THEN Head(s) \o KeepAlnum(Tail(s))
         ELSE KeepAlnum(Tail(s))

\* re.sub(r"[^a-z0-9]", "", s.lower())
_norm_raw(s) == IF Len(s) = 0 THEN "" ELSE KeepAlnum(Lower(s))

BrandAliases ==
    [mcdonald |-> "mcdonalds", mcdonalds |-> "mcdonalds",
     chickfila |-> "chickfila", chickfilamenu |-> "chickfila",
     chickfilachicken |-> "chickfila", wendys |-> "wendys", wendy |-> "wendys",
     dominos |-> "dominos", domino |-> "dominos", papajohns |-> "papajohns",
     papajohn |-> "papajohns", burgerking |-> "burgerking", bk |-> "burgerking",
     kfc |-> "kfc", kentuckyfriedchicken |-> "kfc", arbys |-> "arbys",
     arby |-> "arbys", tacobell |-> "tacobell", pandaexpress |-> "pandaexpress",
     popeyes |-> "popeyes", popeyeslouisianakitchen |-> "popeyes",
     subway |-> "subway", jackinthebox |-> "jackinthebox",
     jackbox |-> "jackinthebox", chipotle |-> "chipotle",
     chipotlemexicangrill |-> "chipotle"]

_norm_brand(s) ==
    LET n == _norm_raw(s)
    IN  IF n \in DOMAIN BrandAliases THEN BrandAliases[n] ELSE n

_is_generic_brand(brand_name) ==
    _norm_raw(brand_name) \in {"", "home", "casualdining", "upscalerestaurant", "restaurant"}

\* ------------------------------------------------- regular expressions

\* \b between position i-1 and position i (1-based, i in 1..Len(s)+1)
IsBoundary(s, i) ==
    LET before == i > 1 /\ i - 1 <= Len(s) /\ IsWordChar(CharAt(s, i - 1))
        after  == i >= 1 /\ i <= Len(s) /\ IsWordChar(CharAt(s, i))
    IN  before # after

RECURSIVE DigitRunLen(_, _)
DigitRunLen(s, i) ==
    IF i <= Len(s) /\ IsDigit(CharAt(s, i)) THEN 1 + DigitRunLen(s, i + 1) ELSE 0

RECURSIVE SkipSpaces(_, _)
\* position reached by \s* from i
SkipSpaces(s, i) ==
    IF i <= Len(s) /\ IsSpace(CharAt(s, i)) THEN SkipSpaces(s, i + 1) ELSE i

StartsWithAt(s, i, w) == i + Len(w) - 1 <= Len(s) /\ SubSeq(s, i, i + Len(w) - 1) = w

\* r"\b(\d{1,3})\s*(?:w1|w2|..)\b" matches at i
NumUnitAt(s, i, units) ==
    LET n == DigitRunLen(s, i)
        j == SkipSpaces(s, i + n)
    IN  /\ IsBoundary(s, i)
        /\ n \in 1..3
        /\ \E w \in units : StartsWithAt(s, j, w) /\ IsBoundary(s, j + Len(w))

\* group(1) of re.search(r"\b(\d{1,3})\s*(?:units)\b", s), "" when no match
SearchNumUnit(s, units) ==
    IF \E i \in 1..Len(s) : NumUnitAt(s, i, units)
    THEN LET i == CHOOSE k \in 1..Len(s) :
                      /\ NumUnitAt(s, k, units)
                      /\ \A m \in 1..(k - 1) : ~NumUnitAt(s, m, units)
         IN  SubSeq(s, i, i + DigitRunLen(s, i) - 1)
    ELSE ""

\* r"\((\d{1,3})\s*pc\)" matches at i (i is the position of the parenthesis)
ParenPcAt(s, i) ==
    LET n == DigitRunLen(s, i + 1)
        j == SkipSpaces(s, i + 1 + n)
    IN  /\ CharAt(s, i) = "("
        /\ n \in 1..3
        /\ StartsWithAt(s, j, "pc)")

SearchParenPc(s) ==
    IF \E i \in 1..Len(s) : ParenPcAt(s, i)
    THEN LET i == CHOOSE k \in 1..Len(s) :
                      /\ ParenPcAt(s, k)
                      /\ \A m \in 1..(k - 1) : ~ParenPcAt(s, m)
         IN  SubSeq(s, i + 1, i + DigitRunLen(s, i + 1))
    ELSE ""

\* r"\b(\d{1,3})\s*fl\s*oz\b" matches at i
FlOzAt(s, i) ==
    LET n == DigitRunLen(s, i)
        j == SkipSpaces(s, i + n)
        k == SkipSpaces(s, j + 2)
    IN  /\ IsBoundary(s, i)
        /\ n \in 1..3
        /\ StartsWithAt(s, j, "fl")
        /\ StartsWithAt(s, k, "oz")
        /\ IsBoundary(s, k + 2)

SearchFlOz(s) ==
    IF \E i \in 1..Len(s) : FlOzAt(s, i)
    THEN LET i == CHOOSE k \in 1..Len(s) :
                      /\ FlOzAt(s, k)
                      /\ \A m \in 1..(k - 1) : ~FlOzAt(s, m)
         IN  SubSeq(s, i, i + DigitRunLen(s, i) - 1)
    ELSE ""

SizeWords == {"kids", "small", "medium", "large"}

SizeWordAt(s, i, w) == IsBoundary(s, i) /\ StartsWithAt(s, i, w) /\ IsBoundary(s, i + Len(w))

\* group(1) of re.search(r"\b(kids|small|medium|large)\b", s), "" when no match
SearchSizeWord(s) ==
    IF \E i \in 1..Len(s) : \E w \in SizeWords : SizeWordAt(s, i, w)
    THEN LET i == CHOOSE k \in 1..Len(s) :
                      /\ \E w \in SizeWords : SizeWordAt(s, k, w)
                      /\ \A m \in 1..(k - 1) : \A w \in SizeWords : ~SizeWordAt(s, m, w)
         IN  CHOOSE w \in SizeWords : SizeWordAt(s, i, w)
    ELSE ""

\* ----------------------------------------------------- CandidateScorer

CoffeeWords == {"coffee", "iced coffee", "latte", "mccafe"}

\* Qualifiers expected from the item's text; "" stands for None
_parse_expected_from_item(item_name, description, category) ==
    LET text == Lower(item_name \o " " \o description)
        m    == SearchNumUnit(text, {"pc", "piece", "pieces", "ct"})
        cnt  == IF m # "" THEN m ELSE SearchParenPc(text)
        m2   == SearchSizeWord(text)
        soft == category = "drink" \/ ContainsAny({"drink", "cola", "sprite", "soda"}, text)
    IN  [count      |-> cnt,
         size       |-> IF m2 # "" THEN Title(m2) ELSE "",
         ounces     |-> SearchFlOz(text),
         drink_type |-> IF ContainsAny(CoffeeWords, text) THEN "coffee"
                        ELSE IF soft THEN "soft_drink" ELSE ""]

_parse_candidate_modifiers(food_name) ==
    LET t  == Lower(food_name)
        m2 == SearchSizeWord(t)
    IN  [count      |-> SearchNumUnit(t, {"pc", "piece", "pieces", "ct"}),
         size       |-> IF m2 # "" THEN Title(m2) ELSE "",
         ounces     |-> SearchFlOz(t),
         drink_type |-> IF ContainsAny(CoffeeWords, t) THEN "coffee"
                        ELSE IF ContainsAny({"cola", "coke", "sprite", "soft drink", "soda"}, t)
                             THEN "soft_drink" ELSE ""]

\* include / exclude keyword lists; the lists are duplicate-free and only
\* membership is used, so they are sets
_derive_expectations(item_name, category, required, forbidden) ==
    LET name     == _norm_raw(item_name)
        sandwich == category = "entree" \/ Contains("sandwich", name)
        burger   == category = "entree" \/ Contains("burger", name) \/ Contains("cheeseburger", name)
        nugget   == Contains("nugget", name)
        side     == category = "side" \/ Contains("fries", name) \/ Contains("french", name)
        drink    == category = "drink" \/ ContainsAny({"soda", "cola", "coke", "sprite", "drink"}, name)
        savory   == ContainsAny({"sandwich", "burger", "fries", "nugget"}, name)
        sauce    == category = "sauce" \/ Contains("sauce", name) \/ Contains("packet", name)
    IN  [include |->
            (IF sandwich THEN {"sandwich", "mcchicken", "chicken sandwich", "crispy chicken"} ELSE {})
            \cup (IF burger THEN {"burger", "cheeseburger", "big mac", "quarter pounder"} ELSE {})
            \cup (IF nugget THEN {"nugget"} ELSE {})
            \cup (IF side THEN {"fries"} ELSE {})
            \cup (IF drink THEN {"coke", "cola", "soft drink", "sprite", "dr pepper", "fanta"} ELSE {})
            \cup (IF sauce THEN {"sauce", "packet"} ELSE {})
            \cup {Lower(k) : k \in required},
         exclude |->
            {"shake", "mcflurry", "smoothie", "nugget dipping"}
            \cup (IF sandwich THEN {"nugget", "tender", "wrap"} ELSE {})
            \cup (IF burger THEN {"nugget", "wrap"} ELSE {})
            \cup (IF nugget THEN {"sandwich", "burger"} ELSE {})
            \cup (IF side THEN {"hash brown", "onion ring"} ELSE {})
            \cup (IF drink THEN {"shake", "smoothie", "coffee", "iced coffee", "latte", "mccafe"} ELSE {})
            \cup (IF savory THEN {"shake", "mcflurry", "sundae"} ELSE {})
            \cup (IF sauce THEN {"dressing", "bottle", "grocery"} ELSE {})
            \cup {Lower(k) : k \in forbidden}]

\* set(re.findall(r"[a-z0-9]+", _norm_raw(s))): _norm_raw leaves no separator,
\* so the set holds the whole normalized text as its single token
NormTokens(s) == IF _norm_raw(s) = "" THEN {} ELSE {_norm_raw(s)}

UpsizeWords == {"double", "quarter", "big mac", "double quarter", "quarter pounder"}

\* lines 327-343: include bonus, exclude penalty, description assist
KeywordScore(food, exp, description) ==
    3 * Cardinality({kw \in exp.include : kw # "" /\ Contains(kw, food)})
    - 5 * Cardinality({kw \in exp.exclude : kw # "" /\ Contains(kw, food)})
    + (IF description # ""
       THEN Cardinality({kw \in exp.include :
                            kw # "" /\ Contains(kw, Lower(description)) /\ Contains(kw, food)})
       ELSE 0)

\* lines 349-357: qualifier mismatch penalties
QualifierPenalty(expected, mods) ==
    (IF expected.count # "" /\ mods.count # "" /\ expected.count # mods.count THEN -6 ELSE 0)
    + (IF expected.size # "" /\ mods.size # "" /\ expected.size # mods.size THEN -4 ELSE 0)
    + (IF expected.ounces # "" /\ mods.ounces # "" /\ expected.ounces # mods.ounces THEN -3 ELSE 0)
    + (IF expected.drink_type = "soft_drink" /\ mods.drink_type = "coffee" THEN -12 ELSE 0)

\* a scorer without the burger mismatch penalties
BurgerPenaltyNone(item_l, food) == 0

\* lines 362-369: burger mismatch penalties
BurgerPenalty(item_l, food) ==
    (IF /\ Contains("cheeseburger", item_l)
        /\ ~(Contains("double cheeseburger", item_l) \/ Contains("mcdouble", item_l))
        /\ ContainsAny(UpsizeWords, food)
     THEN -14 ELSE 0)
    + (IF /\ Contains("mcdouble", item_l) \/ Contains("double cheeseburger", item_l)
          /\ ~Contains("double", food)
          /\ ~Contains("mcdouble", food)
       THEN -10 ELSE 0)
    + (IF Contains("whopper", item_l) /\ ~Contains("whopper", food) THEN -12 ELSE 0)

\* line 337
TokenOverlap(item_name, food) == Cardinality(NormTokens(item_name) \cap NormTokens(food))

_score_candidate(item_name, description, category, required, forbidden, cand) ==
    KeywordScore(Lower(cand.food_name),
                 _derive_expectations(item_name, category, required, forbidden),
                 description)
    + TokenOverlap(item_name, Lower(cand.food_name))
    + QualifierPenalty(_parse_expected_from_item(item_name, description, category),
                       _parse_candidate_modifiers(cand.food_name))
    + BurgerPenalty(Lower(item_name), Lower(cand.food_name))

\* ------------------------------------------------------- QueryComposer

Range(f) == {f[i] : i \in DOMAIN f}

RECURSIVE AddQueries(_, _)
\* add(q) of _generate_item_queries, applied to the queries qs in order
AddQueries(candidates, qs) ==
    IF qs = <<>> THEN candidates
    ELSE LET q == Strip(Head(qs))
         IN  AddQueries(IF q # "" /\ q \notin Range(candidates)
                        THEN Append(candidates, q) ELSE candidates,
                        Tail(qs))

When(cond, qs) == IF cond THEN qs ELSE <<>>

\* the queries add() is called with, in order; hints are the qualifiers parsed
\* from the name and description
SeedTexts(b, item_name, desc, hints, name_l) ==
    <<b \o " " \o item_name \o " " \o desc, b \o " " \o item_name, item_name>>
    \o When(Contains("fries", name_l) \/ Contains("french", name_l),
            <<b \o " fries " \o desc, b \o " french fries">>
            \o When(hints.size # "", <<b \o " fries " \o hints.size>>))
    \o When(ContainsAny({"soda", "cola", "coke"}, name_l),
            <<b \o " coca cola " \o desc, b \o " coke " \o desc, b \o " soft drink " \o desc>>
            \o When(hints.ounces # "", <<b \o " coca cola " \o hints.ounces \o " fl oz">>)
            \o When(hints.size # "", <<b \o " soft drink " \o hints.size>>))
    \o When(Contains("chicken", name_l) /\ Contains("sandwich", name_l),
            <<b \o " crispy chicken sandwich", b \o " chicken sandwich " \o desc>>)
    \o When(Contains("nugget", name_l) /\ hints.count # "",
            <<b \o " chicken nuggets " \o hints.count \o " piece",
              b \o " nuggets " \o hints.count \o " pc">>)
    \o When(ContainsAny({"steak", "sirloin", "ribeye", "filet"}, name_l),
            <<b \o " steak", "grilled steak " \o desc>>)
    \o When(ContainsAny({"shrimp", "prawn"}, name_l),
            <<b \o " grilled shrimp", "shrimp " \o desc>>)
    \o When(Contains("baked potato", name_l)
            \/ (Contains("potato", name_l) /\ Contains("baked", name_l)),
            <<"baked potato", b \o " baked potato " \o desc>>)
    \o When(ContainsAny({"sauce", "dipping", "dip"}, name_l),
            <<"dipping sauce", "sauce " \o desc>>)

_generate_item_queries(brand_name, item_name, description) ==
    AddQueries(<<>>,
               SeedTexts(brand_name, item_name, description,
                         _parse_expected_from_item(item_name, description, ""),
                         Lower(item_name)))

RECURSIVE Upper(_)
Upper(s) == IF Len(s) = 0 THEN "" ELSE UpperChar(Head(s)) \o Upper(Tail(s))

\* "" stands for None
_title_size_from_enum(size_enum) ==
    LET m == Upper(Strip(size_enum))
    IN  IF size_enum = "" THEN ""
        ELSE IF m = "XS" THEN "XS"
        ELSE IF m = "S" THEN "Small"
        ELSE IF m = "M" THEN "Medium"
        ELSE IF m = "L" THEN "Large"
        ELSE IF m = "XL" THEN "XL"
        ELSE IF m = "UNKNOWN" THEN ""
        ELSE size_enum

\* with_brand of _build_nutritionix_query_for_item
with_brand(brand_name, s) ==
    IF brand_name # "" /\ ~_is_generic_brand(brand_name)
    THEN Strip(brand_name \o " " \o s)
    ELSE s

\* lines 604-614: the piece count of a nugget item
NuggetCount(c0, desc, portion_l) ==
    LET c1 == IF c0 = "" /\ (Contains("pc box", portion_l) \/ Contains("ct", portion_l))
              THEN SearchNumUnit(portion_l, {"pc", "piece", "pieces", "ct"})
              ELSE c0
    IN  IF c1 = "" /\ desc # ""
        THEN SearchNumUnit(Lower(desc), {"pc", "pcs", "pieces"})
        ELSE c1

\* lines 603-622
NuggetQuery(brand_name, mcd, count) ==
    IF mcd
    THEN IF count # "" THEN with_brand(brand_name, "Chicken McNuggets " \o count \o " Piece")
         ELSE with_brand(brand_name, "Chicken McNuggets")
    ELSE IF count # "" THEN with_brand(brand_name, "chicken nuggets " \o count \o " piece")
         ELSE with_brand(brand_name, "chicken nuggets")

\* lines 625-633
FriesQuery(brand_name, mcd, size_word) ==
    IF mcd
    THEN IF size_word # "" THEN with_brand(brand_name, "World Famous Fries " \o size_word)
         ELSE with_brand(brand_name, "World Famous Fries")
    ELSE IF size_word # "" THEN with_brand(brand_name, "French fries " \o size_word)
         ELSE with_brand(brand_name, "French fries")

\* a drink branch that names every drink a coffee
DrinkQueryCoffee(brand_name, text, ounces, size_word) ==
    Strip(with_brand(brand_name,
            IF ounces # "" THEN "Iced Coffee " \o ounces \o " fl oz" ELSE "Iced Coffee"))

\* lines 636-646.  The test for the mis-encoded spelling of "mccafe" (line
\* 638) needs a non-ASCII character and is never true of the ASCII text here.
DrinkQuery(brand_name, text, ounces, size_word) ==
    IF ContainsAny({"coffee", "iced coffee", "latte", "mccafe"}, text)
    THEN Strip(with_brand(brand_name,
                 IF ounces # "" THEN "Iced Coffee " \o ounces \o " fl oz" ELSE "Iced Coffee"))
    ELSE IF Contains("sprite", text)
    THEN with_brand(brand_name,
             Strip(IF ounces # "" THEN "Sprite " \o ounces \o " fl oz" ELSE size_word))
    ELSE IF ContainsAny({"coca-cola", "coke", "cola"}, text)
    THEN with_brand(brand_name,
             Strip(IF ounces # "" THEN "Coca-Cola " \o ounces \o " fl oz" ELSE size_word))
    ELSE Strip(with_brand(brand_name,
                 IF ounces # "" THEN "Coca-Cola " \o ounces \o " fl oz"
                 ELSE IF size_word # "" THEN size_word ELSE "Medium"))

\* lines 649-667
OtherQuery(brand_name, mcd, text, name) ==
    IF ContainsAny({"barbecue", "bbq"}, text) /\ Contains("sauce", text)
    THEN with_brand(brand_name, "Barbecue Sauce Packet")
    ELSE IF Contains("ranch", text) /\ Contains("sauce", text)
    THEN with_brand(brand_name, "Creamy Ranch Packet")
    ELSE IF Contains("cheeseburger", text) THEN with_brand(brand_name, "Cheeseburger")
    ELSE IF Contains("mccrispy", text) THEN with_brand(brand_name, "McCrispy")
    ELSE IF Contains("carrot", text)
    THEN IF mcd THEN with_brand(brand_name, "Carrot Sticks Kids Bag")
         ELSE with_brand(brand_name, "Carrot sticks")
    ELSE with_brand(brand_name, name)

BuildQuery(brand_name, mcd, name, desc, portion_l, size_word, text, expected) ==
    IF Contains("nugget", text)
    THEN NuggetQuery(brand_name, mcd, NuggetCount(expected.count, desc, portion_l))
    ELSE IF Contains("fries", text) \/ Contains("french fries", text)
    THEN FriesQuery(brand_name, mcd, size_word)
    ELSE IF ContainsAny({"drink", "cola", "coke", "sprite", "soda", "cup"}, text)
    THEN DrinkQuery(brand_name, text, expected.ounces, size_word)
    ELSE OtherQuery(brand_name, mcd, text, name)

_build_nutritionix_query_for_item(brand_name, entry) ==
    BuildQuery(brand_name,
               _norm_raw(brand_name) = "mcdonalds",
               Strip(entry.item_name),
               Strip(entry.description),
               Lower(Strip(entry.portion_detail)),
               _title_size_from_enum(entry.size),
               Lower(Strip(entry.item_name) \o " " \o Strip(entry.description)
                     \o " " \o Strip(entry.portion_detail)),
               _parse_expected_from_item(Strip(entry.item_name),
                   Strip(entry.description) \o " " \o Strip(entry.portion_detail),
                   entry.category))

\* ----------------------------------------------------------- constants

_NUTRITIONIX_MAX_SEEDS == 8

_GOOD_SCORE_THRESHOLD == 7

\* best_score = -10**9
MinScore == -1000000000

\* refinement loop: while attempts < 2
MaxRefineAttempts == 2

\* calorie sanity bound of the plain McDonald's cheeseburger
CalorieLimit == 450

\* ThreadPoolExecutor(max_workers=min(8, max(1, len(items))))
MaxWorkers == 8

\* ------------------------------------------------------------- options

\* Optional dict: None is the empty sequence, a dict d is <<d>>
None == <<>>

Some(d) == <<d>>

\* nf_calories missing from a record
NoCal == -1

\* ---------------------------------------------------------- the catalog
\* The remote catalog is an external collaborator: each call is answered by
\* any reply of a finite set that depends on the text asked for.

Hit(food_name, brand_name, nix_item_id) ==
    [food_name |-> food_name, brand_name |-> brand_name, nix_item_id |-> nix_item_id]

Food(food_name, brand_name, nf_calories) ==
    [food_name |-> food_name, brand_name |-> brand_name, nf_calories |-> nf_calories]

\* resp.json().get("foods", [{}])[0] of a body without "foods"
EmptyFood == Food("", "", NoCal)

EmptyData == [branded |-> <<>>, common |-> <<>>]

\* the bodies of the text search, by what they list
Catalog ==
    [mcd    |-> [branded |-> <<Hit("Double Cheeseburger", "McDonald's", "mcd2"),
                               Hit("Cheeseburger", "McDonald's", "mcd1")>>,
                 common  |-> <<Hit("cheeseburger", "", "")>>],
     dbl    |-> [branded |-> <<Hit("Double Cheeseburger", "McDonald's", "mcd2")>>,
                 common  |-> <<>>],
     bk     |-> [branded |-> <<Hit("Cheeseburger", "Burger King", "bk1")>>,
                 common  |-> <<Hit("cheeseburger", "", "")>>],
     taco   |-> [branded |-> <<>>, common |-> <<Hit("taco", "", "")>>],
     x      |-> [branded |-> <<Hit("BrandX Double Cheeseburger", "BrandX", "x2"),
                               Hit("BrandX Quarter Pound Cheeseburger", "BrandX", "x3"),
                               Hit("BrandX Big Mac Cheeseburger", "BrandX", "x4"),
                               Hit("BrandX Cheeseburger", "BrandX", "x1")>>,
                 common  |-> <<>>],
     xtra   |-> [branded |-> <<Hit("BrandXtra Cheeseburger", "BrandXtra", "xt1")>>,
                 common  |-> <<>>],
     nugget |-> [branded |-> <<Hit("Chicken McNuggets", "McDonald's", "mcd3")>>,
                 common  |-> <<Hit("chicken nuggets", "", "")>>],
     drink  |-> [branded |-> <<Hit("Iced Coffee", "McDonald's", "mcd4")>>,
                 common  |-> <<Hit("water", "", "")>>]]

CatalogBodies == {EmptyData} \cup {Catalog[k] : k \in DOMAIN Catalog}

CatalogHits ==
    UNION {{d.branded[i] : i \in DOMAIN d.branded} \cup {d.common[i] : i \in DOMAIN d.common} :
              d \in CatalogBodies}

\* bodies GET /v2/search/instant may return for a query
CatalogSearch(query) ==
    IF Contains("cheeseburger", Lower(query))
    THEN {EmptyData, Catalog.mcd, Catalog.dbl, Catalog.bk, Catalog.x, Catalog.xtra,
          Catalog.nugget}
    ELSE IF Contains("taco", Lower(query)) THEN {EmptyData, Catalog.taco}
    ELSE IF Contains("nugget", Lower(query)) THEN {EmptyData, Catalog.nugget}
    ELSE IF ContainsAny({"soda", "cola", "coke", "drink"}, Lower(query))
    THEN {EmptyData, Catalog.drink}
    ELSE {EmptyData}

\* records GET /v2/search/item may return for an id
CatalogItem(nix_item_id) ==
    IF nix_item_id = "bk1" THEN {Food("Cheeseburger", "Burger King", 290)}
    ELSE IF nix_item_id = "mcd3" THEN {Food("Chicken McNuggets", "McDonald's", 250)}
    ELSE IF nix_item_id = "mcd4" THEN {Food("Iced Coffee", "McDonald's", 140)}
    ELSE IF nix_item_id \in {"x1", "x2", "x3", "x4"} THEN {Food("BrandX Cheeseburger", "BrandX", 310)}
    ELSE IF nix_item_id = "xt1" THEN {Food("BrandXtra Cheeseburger", "BrandXtra", 330)}
    ELSE {Food("Cheeseburger", "McDonald's", 300), Food("Cheeseburger", "McDonald's", 520),
          Food("Cheeseburger", "Burger King", 290)}

\* records POST /v2/natural/nutrients may return for a text
CatalogNatural(text) ==
    IF Contains("cheeseburger", Lower(text))
    THEN {Food("cheeseburger", "", 303), Food("Cheeseburger", "McDonald's", 520),
          Food("Cheeseburger", "Burger King", 290)}
    ELSE IF Contains("taco", Lower(text)) THEN {Food("taco", "", 210)}
    ELSE IF Contains("nugget", Lower(text)) THEN {Food("chicken nuggets", "", 270)}
    ELSE IF ContainsAny({"soda", "cola", "coke", "drink"}, Lower(text))
    THEN {Food("soda", "", 150)}
    ELSE {EmptyFood}

Failures(body) == {[status |-> "exc", body |-> body], [status |-> "non200", body |-> body]}

SearchReplies(query) ==
    Failures(EmptyData) \cup {[status |-> "ok", body |-> d] : d \in CatalogSearch(query)}

ItemReplies(nix_item_id) ==
    Failures(EmptyFood) \cup {[status |-> "ok", body |-> f] : f \in CatalogItem(nix_item_id)}

NaturalReplies(text) ==
    Failures(EmptyFood) \cup {[status |-> "ok", body |-> f] : f \in CatalogNatural(text)}

\* ------------------------------------------------------------- bounds

\* concurrent batch calls of the shared-key scenario
MaxRequests == 2

\* items of the batch of the multi-item scenario
MaxItems == 2

\* ------------------------------------------------------------ scenarios

Item(name, desc, nq, qty) ==
    [item_name |-> name, description |-> desc, category |-> "entree",
     required_keywords |-> {}, forbidden_keywords |-> {},
     nutritionix_query |-> nq, quantity |-> qty, portion_detail |-> "", size |-> "UNKNOWN"]

ItemCheese == Item("Cheeseburger", "", "McDonald's Cheeseburger", 1)

BatchNames == <<"Taco", "Fish Taco", "Taco Salad", "Taco Bowl">>

BatchItem(i) == Item(BatchNames[((i - 1) % Len(BatchNames)) + 1], "", "", 1)

Call(entry_point, source, restaurant_name, dd_brand, items) ==
    [entry_point |-> entry_point, source |-> source, restaurant_name |-> restaurant_name,
     dd_brand |-> dd_brand, items |-> items]

\* one McDonald's cheeseburger, the brand coming from the dish determiner
ScenSolo == <<Call("pipeline", "RESTAURANT", "", "McDonald's", <<ItemCheese>>)>>

\* a dish that is not restaurant-sourced, through either entry point
ScenHome == {<<Call(e, "HOME", "", "", <<BatchItem(1)>>)>> : e \in {"pipeline", "endpoint"}}

\* one batch of MaxItems different items
ScenBatch == <<Call("pipeline", "RESTAURANT", "", "", [i \in 1..MaxItems |-> BatchItem(i)])>>

\* MaxRequests concurrent batches that share one (brand, name, description)
\* key and differ in the quantity asked for
ScenShared ==
    [r \in 1..MaxRequests |->
        Call("endpoint", "RESTAURANT", "", "", <<Item("Taco", "", "", r)>>)]

\* items of other kinds: a cheeseburger of another brand and of a sit-down
\* restaurant of unknown brand, soft drinks, a coffee, a combo whose text yields more
\* seed queries than are used, nuggets with a piece count, and a batch of two
\* items whose names differ in case only
ScenMenu ==
    {<<Call("endpoint", "RESTAURANT", "", "", <<Item("Taco", "", "", 1), Item("taco", "", "", 1)>>)>>}
    \cup
    {<<Call("pipeline", "RESTAURANT", "", "BrandX", <<Item("Cheeseburger", "", "", 1)>>)>>,
     <<Call("pipeline", "RESTAURANT", "", "Casual Dining", <<Item("Cheeseburger", "", "", 1)>>)>>,
     <<Call("pipeline", "RESTAURANT", "", "McDonald's", <<Item("Coke", "", "", 1)>>)>>,
     <<Call("pipeline", "RESTAURANT", "", "McDonald's", <<Item("Iced Coffee", "in a cup", "", 1)>>)>>,
     <<Call("pipeline", "RESTAURANT", "", "McDonald's",
            <<Item("Fries and Soda", "large 16 fl oz", "", 1)>>)>>,
     <<Call("pipeline", "RESTAURANT", "", "McDonald's",
            <<[Item("Soda", "", "McDonald's Soda", 1) EXCEPT !.category = "drink"]>>)>>}
    \cup {<<Call("pipeline", "RESTAURANT", "", b, <<Item(i[1], i[2], "", 1)>>)>> :
              b \in {"McDonald's", "BrandX"},
              i \in {<<"Chicken Nuggets", "(6 pc box)">>, <<"10-piece Chicken Nuggets", "">>}}

Scenarios == {ScenSolo, ScenBatch, ScenShared} \cup ScenHome \cup ScenMenu

\* restaurant_name handed to fetch_nutritionix_macros (lines 842-845)
BrandInUse(call) ==
    IF call.entry_point = "pipeline" /\ call.dd_brand # ""
    THEN call.dd_brand
    ELSE call.restaurant_name

ScenBrands == {BrandInUse(c) : c \in UNION {Range(sc) : sc \in Scenarios}}

ScenEntries == UNION {Range(c.items) : c \in UNION {Range(sc) : sc \in Scenarios}}

\* ------------------------------------------------------ search selection

\* a selection that rejects no candidate
_reject_mismatch_never(item_name_text, candidate_food) == FALSE

_reject_mismatch(item_name_text, candidate_food) ==
    LET it == Lower(item_name_text)
        cf == Lower(candidate_food)
    IN  \/ /\ Contains("cheeseburger", it)
           /\ ~(Contains("double", it) \/ Contains("mcdouble", it))
           /\ ContainsAny(UpsizeWords, cf)
        \/ /\ Contains("mcdouble", it) \/ Contains("double cheeseburger", it)
           /\ ~(Contains("double", cf) \/ Contains("mcdouble", cf))

\* consider(c) of _instant_search_best takes c as the best so far when c is
\* not rejected and scores strictly more than best_score
Considered(entry, c) == ~_reject_mismatch(entry.item_name, c.food_name)

\* _score_candidate is pure: its values on the entries of the scenarios and
\* the hits of the catalog, computed once
ScoreTable ==
    [entry \in ScenEntries, c \in CatalogHits |->
        _score_candidate(entry.item_name, entry.description, entry.category,
                         entry.required_keywords, entry.forbidden_keywords, c)]

ScoreOf(entry, c) == ScoreTable[entry, c]

\* index of the first candidate of maximal score among those considered
BestIndex(idx, scores) ==
    CHOOSE i \in idx :
        \A j \in idx : scores[j] < scores[i] \/ (scores[j] = scores[i] /\ i <= j)

PickBest(cs, idx, scores) == IF idx = {} THEN None ELSE Some(cs[BestIndex(idx, scores)])

ConsideredIdx(entry, cs, scores) ==
    {i \in 1..Len(cs) : Considered(entry, cs[i]) /\ scores[i] > MinScore}

BestOf(entry, cs, scores) == PickBest(cs, ConsideredIdx(entry, cs, scores), scores)

\* best after consider(c) ran on each c of cs in order, from best = None and
\* best_score = -10**9: the first considered candidate of maximal score
ConsiderAll(entry, cs) == BestOf(entry, cs, [i \in 1..Len(cs) |-> ScoreOf(entry, cs[i])])

\* the brand test a branded hit must pass when the brand is specific
BrandHitAccepted(brand_name, c) ==
    LET bn_norm == _norm_brand(brand_name)
        bnorm   == _norm_brand(c.brand_name)
    IN  /\ bn_norm # ""
        /\ bnorm # ""
        /\ (bnorm = bn_norm \/ Contains(bn_norm, bnorm) \/ Contains(bnorm, bn_norm))

\* the candidates _instant_search_best considers, in order
Eligible(brand_name, data) ==
    IF brand_name # "" /\ ~_is_generic_brand(brand_name)
    THEN SelectSeq(data.branded, LAMBDA c : BrandHitAccepted(brand_name, c))
    ELSE data.branded \o data.common

\* the selection of _instant_search_best from the body `data` of a 200 reply
InstantBest(brand_name, entry, data) == ConsiderAll(entry, Eligible(brand_name, data))

\* A catalog reply: status "exc" (timeout, connection error, malformed body),
\* "non200", or "ok" with a body
\* InstantBest is pure: its values on the brands and entries of the scenarios
\* and the bodies of the catalog, computed once
BestTable ==
    [brand_name \in ScenBrands, entry \in ScenEntries, data \in CatalogBodies |->
        InstantBest(brand_name, entry, data)]

_instant_search_best(brand_name, entry, reply) ==
    IF reply.status = "ok" THEN BestTable[brand_name, entry, reply.body] ELSE None

\* --------------------------------------------------------- nutrient fetch

_extract_macro_fields(food) ==
    [calories |-> food.nf_calories, brand_name |-> food.brand_name, food_name |-> food.food_name]

\* lines 415-417: the fetched record's brand contradicts the required brand
BrandContradicts(require_branded, brand_hint, full) ==
    /\ require_branded
    /\ brand_hint # ""
    /\ full.brand_name # ""
    /\ _norm_brand(full.brand_name) # _norm_brand(brand_hint)

\* lines 419-426: calorie sanity of a plain McDonald's cheeseburger record
ImplausibleCheeseburger(full) ==
    /\ _norm_brand(full.brand_name) = "mcdonalds"
    /\ Contains("cheeseburger", Lower(full.food_name))
    /\ ~ContainsAny({"double", "quarter", "big mac"}, Lower(full.food_name))
    /\ full.nf_calories # NoCal
    /\ full.nf_calories > CalorieLimit

\* _nutritionix_nutrients_from_item, branch of an item with nix_item_id, on a
\* reply that raised nothing
NutrientsById(reply, require_branded, brand_hint) ==
    IF reply.status # "ok" THEN None
    ELSE IF BrandContradicts(require_branded, brand_hint, reply.body) THEN None
    ELSE IF ImplausibleCheeseburger(reply.body) THEN None
    ELSE Some(_extract_macro_fields(reply.body))

\* hint of the free-text lookups: None for a generic brand
Hint(brand_name) == IF _is_generic_brand(brand_name) THEN "" ELSE brand_name

\* NaturalContradicts without the comparison of lines 561-562
NaturalContradictsNever(brand_name, full) == FALSE

NaturalContradicts(brand_name, full) ==
    /\ Hint(brand_name) # ""
    /\ full.brand_name # ""
    /\ _norm_brand(full.brand_name) # _norm_brand(Hint(brand_name))

\* free-text branch of _nutritionix_nutrients_from_item (lines 431-446) and
\* the body of _natural_search_best (lines 558-563) on a reply that raised nothing
NutrientsByText(reply, brand_name) ==
    IF reply.status # "ok" THEN None
    ELSE IF NaturalContradicts(brand_name, reply.body) THEN None
    ELSE Some(_extract_macro_fields(reply.body))

\* text sent by the free-text branch of _nutritionix_nutrients_from_item
ItemLookupText(item, brand_hint) ==
    IF Hint(brand_hint) # ""
    THEN Strip(Hint(brand_hint) \o " " \o item.food_name)
    ELSE item.food_name

\* text sent by _natural_search_best
NaturalText(brand_name, nutritionix_query) ==
    Strip(Strip(Hint(brand_name)) \o " " \o nutritionix_query)

\* ------------------------------------------------------------ the cache

_cache_key_for_item(brand, name, desc) ==
    _norm_brand(brand) \o "|" \o Lower(Strip(name)) \o "|" \o Lower(Strip(desc))

\* _cache_key_for_item is pure: its values on the brands and entries of the
\* scenarios, computed once
KeyTable ==
    [brand \in ScenBrands, entry \in ScenEntries |->
        _cache_key_for_item(brand, entry.item_name, entry.description)]

\* --------------------------------------------------------------- state

VARIABLES
    reqs,     \* the batch calls made: entry point, dish_json fields, itemizer output
    rq,       \* per call: progress, itemized flag, restaurant_name in use, results
    task,     \* per item of a call: the locals of process_entry
    hist,     \* per item: summary of the catalog calls issued so far (history)
    cache     \* _CACHE_MACROS

vars == <<reqs, rq, task, hist, cache>>

Requests == DOMAIN reqs

TasksOf(r) == {<<r, i>> : i \in 1..Len(reqs[r].items)}

Live == UNION {TasksOf(r) : r \in Requests}

Entry(t) == reqs[t[1]].items[t[2]]

Brand(t) == rq[t[1]].restaurant_name

IdleTask ==
    [pc |-> "idle", key |-> "", match |-> None, nutrients |-> None, attempts |-> 0,
     seeds |-> <<>>, seed_i |-> 0, best_overall |-> None, best_score |-> MinScore,
     det_q |-> "", result |-> None]

\* searches: the kinds of text search issued, in order, a run of one kind
\* written once; re_searches: text searches of the refinement loop and of the
\* strict retry; made: some catalog call was issued; any_ok: some call was
\* answered with status 200; hits: the body the latest text search was
\* answered with, empty when it failed; req: the request that last asked for
\* a nutrient record ("item": by nix_item_id, "natural": free text built from
\* the candidate's name, "query": free text built from a query string);
\* dropped: the record that request was answered with when the code threw it
\* away; origin: the request that the value of nutrients came from and the
\* candidate it was made for. req, dropped and origin describe the resolution
\* in progress and are reset when it completes
NoOrigin == [kind |-> "", for |-> None]

NoCalls ==
    [searches |-> <<>>, re_searches |-> 0, made |-> FALSE, any_ok |-> FALSE, hits |-> EmptyData,
     req |-> "", dropped |-> EmptyFood, origin |-> NoOrigin]

Terminal(t) == task[t].pc \in {"done", "raised"}

Running(t) == task[t].pc \notin {"idle", "queued", "done", "raised"}

\* ------------------------------------------------- process_entry, locals

\* a lookup that always goes by the candidate's name
FetchKindByName(item, brand_hint) ==
    IF ItemLookupText(item, brand_hint) # "" THEN "natural" ELSE "none"

\* which request _nutritionix_nutrients_from_item sends for a candidate; the
\* text of line 435 is not empty when the candidate has a food_name
FetchKind(item, brand_hint) ==
    IF item.nix_item_id # "" THEN "item"
    ELSE IF item.food_name # "" \/ ItemLookupText(item, brand_hint) # "" THEN "natural"
    ELSE "none"

\* _nutritionix_nutrients_from_item on a reply that raised nothing
_nutritionix_nutrients_from_item(item, require_branded, brand_hint, reply) ==
    IF FetchKind(item, brand_hint) = "item"
    THEN NutrientsById(reply, require_branded, brand_hint)
    ELSE NutrientsByText(reply, brand_hint)

FetchReplies(item, brand_hint) ==
    IF FetchKind(item, brand_hint) = "item"
    THEN ItemReplies(item.nix_item_id)
    ELSE NaturalReplies(ItemLookupText(item, brand_hint))

\* _natural_search_best without the status test of lines 556-557
_natural_search_best_any_status(brand_name, reply) ==
    IF reply.status = "exc" THEN None ELSE Some(_extract_macro_fields(reply.body))

\* _natural_search_best: every failure, raised or not, gives None
_natural_search_best(brand_name, reply) ==
    IF reply.status = "exc" THEN None ELSE NutrientsByText(reply, brand_name)

\* lines 796-800
StrictRetryNeeded(brand, name, nutrients) ==
    /\ nutrients # None
    /\ _norm_brand(brand) = "mcdonalds"
    /\ Contains("cheeseburger", Lower(name))
    /\ ~ContainsAny({"double", "quarter", "big mac"}, Lower(name))
    /\ nutrients[1].calories # NoCal
    /\ nutrients[1].calories > CalorieLimit

\* line 786: det_q, the same at every attempt
DetQ(brand, entry) ==
    LET b == _build_nutritionix_query_for_item(brand, entry)
    IN  IF b # "" THEN b
        ELSE IF entry.nutritionix_query # "" THEN entry.nutritionix_query
        ELSE entry.item_name

\* DetQ is pure: its values on the brands and entries of the scenarios,
\* computed once
DetQTable == [brand \in ScenBrands, entry \in ScenEntries |-> DetQ(brand, entry)]

AfterLoop(brand, entry, tk) ==
    [tk EXCEPT !.pc = IF StrictRetryNeeded(brand, entry.item_name, tk.nutrients)
                      THEN "strict_search" ELSE "finish"]

\* the loop test of line 784 with <= in place of <
RefineAgainInclusive(attempts, nutrients) == attempts <= MaxRefineAttempts /\ nutrients = None

\* line 784: while attempts < 2 and nutrients is None
RefineAgain(attempts, nutrients) == attempts < MaxRefineAttempts /\ nutrients = None

\* a refinement loop that re-runs the deterministic search of line 381
LoopHeadDeterministic(brand, entry, tk) ==
    IF RefineAgain(tk.attempts, tk.nutrients)
    THEN [tk EXCEPT !.pc = "det", !.attempts = @ + 1]
    ELSE AfterLoop(brand, entry, tk)

\* a composer whose second answer differs from its first
LoopHeadForgetful(brand, entry, tk) ==
    IF RefineAgain(tk.attempts, tk.nutrients)
    THEN [tk EXCEPT !.pc = "refine_search", !.attempts = @ + 1,
                    !.det_q = IF tk.attempts = 0 THEN DetQTable[brand, entry]
                              ELSE entry.item_name \o " " \o entry.description]
    ELSE AfterLoop(brand, entry, tk)

LoopHead(brand, entry, tk) ==
    IF RefineAgain(tk.attempts, tk.nutrients)
    THEN [tk EXCEPT !.pc = "refine_search", !.attempts = @ + 1, !.det_q = DetQTable[brand, entry]]
    ELSE AfterLoop(brand, entry, tk)

\* a free-text lookup of the item's query made whatever the fetch returned
AfterFirstFetchAlways(brand, entry, tk) ==
    IF entry.nutritionix_query # ""
    THEN [tk EXCEPT !.pc = "nl_nq"]
    ELSE LoopHead(brand, entry, tk)

\* lines 779-780
AfterFirstFetch(brand, entry, tk) ==
    IF tk.nutrients = None /\ entry.nutritionix_query # ""
    THEN [tk EXCEPT !.pc = "nl_nq"]
    ELSE LoopHead(brand, entry, tk)

\* line 778, with the match m returned by _nutritionix_search_item
AfterSearch(brand, entry, tk, m) ==
    LET tk1 == [tk EXCEPT !.match = m, !.seeds = <<>>, !.seed_i = 0,
                          !.best_overall = None, !.best_score = MinScore]
    IN  IF m # None /\ FetchKind(m[1], brand) # "none"
        THEN [tk1 EXCEPT !.pc = "fetch"]
        ELSE AfterFirstFetch(brand, entry, tk1)

Min(a, b) == IF a < b THEN a ELSE b

\* a seed list that is not cut
SeedsUncut(brand, entry) ==
    _generate_item_queries(brand, entry.item_name, entry.description)

\* seeds[:_NUTRITIONIX_MAX_SEEDS]
Seeds(brand, entry) ==
    LET all == _generate_item_queries(brand, entry.item_name, entry.description)
    IN  SubSeq(all, 1, Min(_NUTRITIONIX_MAX_SEEDS, Len(all)))

\* Seeds is pure: its values on the brands and entries of the scenarios,
\* computed once
SeedsTable == [brand \in ScenBrands, entry \in ScenEntries |-> Seeds(brand, entry)]

EnterSeedLoop(brand, entry, tk, seeds) ==
    IF seeds = <<>>
    THEN AfterSearch(brand, entry, tk, None)
    ELSE [tk EXCEPT !.pc = "seed", !.seeds = seeds, !.seed_i = 1]

\* lines 385-390: entering the seed loop
EnterSeeds(brand, entry, tk) ==
    EnterSeedLoop(brand, entry, tk, SeedsTable[brand, entry])

\* lines 379-383: the deterministic query comes first when there is one
EnterSearch(brand, entry, tk) ==
    IF entry.nutritionix_query # ""
    THEN [tk EXCEPT !.pc = "det"]
    ELSE EnterSeeds(brand, entry, tk)

\* a seed loop that keeps the last of the candidates of equal score
SeedStepLastWins(brand, entry, tk, candidate) ==
    LET sc   == ScoreOf(entry, candidate[1])
        upd  == IF candidate # None /\ sc >= tk.best_score
                THEN [tk EXCEPT !.best_overall = candidate, !.best_score = sc]
                ELSE tk
        stop == candidate # None /\ upd.best_score >= _GOOD_SCORE_THRESHOLD
    IN  IF stop \/ tk.seed_i = Len(tk.seeds)
        THEN AfterSearch(brand, entry, upd, upd.best_overall)
        ELSE [upd EXCEPT !.seed_i = @ + 1]

\* lines 394-401: one iteration of the seed loop, candidate being the best
\* hit of the seed query
SeedStep(brand, entry, tk, candidate) ==
    LET sc   == ScoreOf(entry, candidate[1])
        upd  == IF candidate # None /\ sc > tk.best_score
                THEN [tk EXCEPT !.best_overall = candidate, !.best_score = sc]
                ELSE tk
        stop == candidate # None /\ upd.best_score >= _GOOD_SCORE_THRESHOLD
    IN  IF stop \/ tk.seed_i = Len(tk.seeds)
        THEN AfterSearch(brand, entry, upd, upd.best_overall)
        ELSE [upd EXCEPT !.seed_i = @ + 1]

\* line 801
StrictQ(brand) == brand \o " Cheeseburger"

IsPlaceholder(name) ==
    LET name_l == Lower(Strip(name))
    IN  name_l \in {"unidentified item", "unidentified", "unknown"} \/ Contains("best guess", name_l)

\* lines 808-814
FinalName(name, match, nutrients) ==
    IF IsPlaceholder(name)
    THEN IF match # None /\ match[1].food_name # "" THEN match[1].food_name
         ELSE IF nutrients # None /\ nutrients[1].food_name # "" THEN nutrients[1].food_name
         ELSE name
    ELSE name

\* entry.get("quantity") or 1
Qty(entry) == IF entry.quantity = 0 THEN 1 ELSE entry.quantity

\* lines 815-821
MakeResult(entry, match, nutrients) ==
    [item_name |-> FinalName(entry.item_name, match, nutrients),
     description |-> entry.description,
     quantity |-> Qty(entry),
     nutritionix_match |-> match,
     macros |-> nutrients]

\* a deterministic search whose candidate counts only from the threshold up
DetStepThreshold(brand, entry, tk, best) ==
    IF best # None /\ ScoreOf(entry, best[1]) >= _GOOD_SCORE_THRESHOLD
    THEN AfterSearch(brand, entry, tk, best)
    ELSE EnterSeeds(brand, entry, tk)

\* lines 381-385, best being the result of the deterministic search
DetStep(brand, entry, tk, best) ==
    IF best # None
    THEN AfterSearch(brand, entry, tk, best)
    ELSE EnterSeeds(brand, entry, tk)

\* line 778: what the call raises leaves process_entry, no try encloses it
FetchStep(brand, entry, tk, reply) ==
    IF reply.status = "exc"
    THEN [tk EXCEPT !.pc = "raised"]
    ELSE AfterFirstFetch(brand, entry,
             [tk EXCEPT !.nutrients =
                 _nutritionix_nutrients_from_item(tk.match[1], brand # "", brand, reply)])

\* lines 788-791, refined being the result of the refinement search
RefineStep(brand, tk, refined) ==
    IF refined # None
    THEN [tk EXCEPT !.match = refined,
                    !.pc = IF FetchKind(refined[1], brand) # "none"
                           THEN "refine_fetch" ELSE "refine_nl"]
    ELSE [tk EXCEPT !.pc = "refine_nl"]

\* lines 790-791: what the call raises leaves process_entry, no try encloses it
RefineFetchStep(brand, entry, tk, reply) ==
    IF reply.status = "exc" THEN [tk EXCEPT !.pc = "raised"]
    ELSE IF _nutritionix_nutrients_from_item(tk.match[1], brand # "", brand, reply) = None
    THEN [tk EXCEPT !.pc = "refine_nl"]
    ELSE LoopHead(brand, entry,
             [tk EXCEPT !.nutrients =
                 _nutritionix_nutrients_from_item(tk.match[1], brand # "", brand, reply)])

\* lines 802-805, refined2 being the result of the strict search
StrictStep(brand, tk, refined2) ==
    IF refined2 # None
    THEN [tk EXCEPT !.match = refined2,
                    !.pc = IF FetchKind(refined2[1], brand) # "none"
                           THEN "strict_fetch" ELSE "strict_nl"]
    ELSE [tk EXCEPT !.pc = "finish"]

\* line 805, left operand: inside the try of line 795, so what it raises is
\* swallowed and nutrients keeps its value
StrictFetchStep(brand, tk, reply) ==
    IF reply.status = "exc" THEN [tk EXCEPT !.pc = "finish"]
    ELSE IF _nutritionix_nutrients_from_item(tk.match[1], TRUE, brand, reply) = None
    THEN [tk EXCEPT !.pc = "strict_nl"]
    ELSE [tk EXCEPT !.nutrients = _nutritionix_nutrients_from_item(tk.match[1], TRUE, brand, reply),
                    !.pc = "finish"]

\* a cache that never answers
CacheGetNothing(c, key) == None

CacheGet(c, key) == IF key \in DOMAIN c THEN Some(c[key]) ELSE None

\* a cache that holds the latest entry only
CachePutEvicting(c, key, result) == [k \in {key} |-> result]

\* a cache that is written only when the item was resolved
CachePutResolved(c, key, result) ==
    IF result.macros = None THEN c ELSE [k \in DOMAIN c \cup {key} |-> IF k = key THEN result ELSE c[k]]

\* a cache that keeps its first value
CachePutFirst(c, key, result) ==
    [k \in DOMAIN c \cup {key} |-> IF k \in DOMAIN c THEN c[k] ELSE result]

CachePut(c, key, result) ==
    [k \in DOMAIN c \cup {key} |-> IF k = key THEN result ELSE c[k]]

\* ---------------------------------------------------------------- Init

Init ==
    /\ reqs \in Scenarios
    /\ rq = [r \in DOMAIN reqs |->
                [state |-> "new", itemized |-> FALSE, restaurant_name |-> "", results |-> <<>>]]
    /\ task = [t \in {<<r, i>> : r \in DOMAIN reqs, i \in 1..MaxItems} \cap
                     UNION {{<<r, i>> : i \in 1..Len(reqs[r].items)} : r \in DOMAIN reqs}
                 |-> IdleTask]
    /\ hist = [t \in DOMAIN task |-> NoCalls]
    /\ cache = <<>>

\* ------------------------------------------------------- batch entry

\* restaurant_calories_pipeline, lines 836-838
PipelineCall(r) ==
    /\ reqs[r].entry_point = "pipeline"
    /\ rq[r].state = "new"
    /\ rq' = [rq EXCEPT ![r].state =
                 IF reqs[r].source # "RESTAURANT" THEN "error" ELSE "itemize"]
    /\ UNCHANGED <<reqs, task, hist, cache>>

\* restaurant_calories_endpoint: the source is logged, not tested
EndpointCall(r) ==
    /\ reqs[r].entry_point = "endpoint"
    /\ rq[r].state = "new"
    /\ rq' = [rq EXCEPT ![r].state = "itemize"]
    /\ UNCHANGED <<reqs, task, hist, cache>>

\* itemize_restaurant_items returned; the futures are submitted
Itemize(r) ==
    /\ rq[r].state = "itemize"
    /\ rq' = [rq EXCEPT ![r].state = "running", ![r].itemized = TRUE,
                        ![r].restaurant_name = BrandInUse(reqs[r])]
    /\ task' = [t \in DOMAIN task |->
                   IF t[1] = r THEN [task[t] EXCEPT !.pc = "queued"] ELSE task[t]]
    /\ UNCHANGED <<reqs, hist, cache>>

\* itemize_restaurant_items raised (no content, bad JSON, client error)
ItemizeFails(r) ==
    /\ rq[r].state = "itemize"
    /\ rq' = [rq EXCEPT ![r].state = "raised", ![r].itemized = TRUE]
    /\ UNCHANGED <<reqs, task, hist, cache>>

\* a pool with one worker per item, however many items
WorkersPerItem(r) == IF Len(reqs[r].items) < 1 THEN 1 ELSE Len(reqs[r].items)

\* max_workers = min(8, max(1, len(items)))
Workers(r) == Min(MaxWorkers, IF Len(reqs[r].items) < 1 THEN 1 ELSE Len(reqs[r].items))

RunningOf(r) == {t \in TasksOf(r) : Running(t)}

\* fetch_nutritionix_macros leaves the executor: every future is done
ReturnBatch(r) ==
    /\ rq[r].state = "running"
    /\ \A t \in TasksOf(r) : Terminal(t)
    /\ rq' = [rq EXCEPT ![r].state =
                 IF \E t \in TasksOf(r) : task[t].pc = "raised" THEN "raised" ELSE "returned"]
    /\ UNCHANGED <<reqs, task, hist, cache>>

\* ------------------------------------------------------- process_entry

\* the kind of text search issued at a pc
SearchKind ==
    [det |-> "det", seed |-> "seed", refine_search |-> "refine", strict_search |-> "strict"]

\* pcs at which _nutritionix_nutrients_from_item is called
FetchPcs == {"fetch", "refine_fetch", "strict_fetch"}

\* pcs at which _natural_search_best is called
NaturalPcs == {"nl_nq", "refine_nl", "strict_nl"}

\* the catalog call issued by task t at its current pc was answered by reply;
\* task' is the outcome of the step. kept: the call asked for a nutrient
\* record and the code took the record of the reply
Logged(t, reply) ==
    LET pc   == task[t].pc
        asks == pc \in FetchPcs \cup NaturalPcs
        kind == IF pc \in FetchPcs THEN FetchKind(task[t].match[1], Brand(t)) ELSE "query"
        kept == /\ reply.status = "ok"
                /\ IF pc = "refine_fetch" THEN task'[t].pc # "refine_nl"
                   ELSE IF pc = "strict_fetch" THEN task'[t].pc # "strict_nl"
                   ELSE task'[t].nutrients # None
    IN
    hist' = [hist EXCEPT ![t] =
               [searches    |-> IF /\ task[t].pc \in DOMAIN SearchKind
                                   /\ \/ hist[t].searches = <<>>
                                      \/ hist[t].searches[Len(hist[t].searches)]
                                             # SearchKind[task[t].pc]
                                THEN Append(hist[t].searches, SearchKind[task[t].pc])
                                ELSE hist[t].searches,
                re_searches |-> IF task[t].pc \in {"refine_search", "strict_search"}
                                THEN hist[t].re_searches + 1 ELSE hist[t].re_searches,
                made        |-> TRUE,
                any_ok      |-> hist[t].any_ok \/ reply.status = "ok",
                hits        |-> IF task[t].pc \notin DOMAIN SearchKind THEN hist[t].hits
                                ELSE IF reply.status = "ok" THEN reply.body ELSE EmptyData,
                req         |-> IF asks THEN kind ELSE hist[t].req,
                dropped     |-> IF ~asks THEN hist[t].dropped
                                ELSE IF reply.status = "ok" /\ ~kept THEN reply.body
                                ELSE EmptyFood,
                origin      |-> IF ~asks THEN hist[t].origin
                                ELSE IF kept
                                THEN [kind |-> kind,
                                      for |-> IF pc \in FetchPcs THEN task[t].match ELSE None]
                                ELSE IF pc = "strict_fetch" THEN hist[t].origin
                                ELSE NoOrigin]]

\* results.append(fut.result()) as the futures complete; nothing is appended
\* once fut.result() has raised
Collect(t, result) ==
    IF \E u \in TasksOf(t[1]) : task[u].pc = "raised"
    THEN rq' = rq
    ELSE rq' = [rq EXCEPT ![t[1]].results = Append(@, result)]

\* lines 772-775
CacheCheck(t) ==
    /\ task[t].pc = "queued"
    /\ Cardinality(RunningOf(t[1])) < Workers(t[1])
    /\ LET key    == KeyTable[Brand(t), Entry(t)]
           cached == CacheGet(cache, key)
       IN  IF cached # None
           THEN /\ task' = [task EXCEPT ![t] = [task[t] EXCEPT !.pc = "done", !.key = key,
                                                              !.result = cached]]
                /\ Collect(t, cached[1])
           ELSE /\ task' = [task EXCEPT ![t] =
                               EnterSearch(Brand(t), Entry(t), [task[t] EXCEPT !.key = key])]
                /\ rq' = rq
    /\ UNCHANGED <<reqs, hist, cache>>

\* line 381
DetSearch(t) ==
    /\ task[t].pc = "det"
    /\ \E reply \in SearchReplies(Entry(t).nutritionix_query) :
          /\ task' = [task EXCEPT ![t] =
                         DetStep(Brand(t), Entry(t), task[t],
                                 _instant_search_best(Brand(t), Entry(t), reply))]
          /\ Logged(t, reply)
    /\ UNCHANGED <<reqs, rq, cache>>

\* line 393
SeedSearch(t) ==
    /\ task[t].pc = "seed"
    /\ \E reply \in SearchReplies(task[t].seeds[task[t].seed_i]) :
          /\ task' = [task EXCEPT ![t] =
                         SeedStep(Brand(t), Entry(t), task[t],
                                  _instant_search_best(Brand(t), Entry(t), reply))]
          /\ Logged(t, reply)
    /\ UNCHANGED <<reqs, rq, cache>>

\* lines 391-392: the per-item budget ran out during the earlier seed calls
SeedBudget(t) ==
    /\ task[t].pc = "seed"
    /\ task[t].seed_i > 1
    /\ task' = [task EXCEPT ![t] = AfterSearch(Brand(t), Entry(t), task[t], task[t].best_overall)]
    /\ UNCHANGED <<reqs, rq, hist, cache>>

\* line 778: the call is outside every try, so what it raises leaves process_entry
Fetch(t) ==
    /\ task[t].pc = "fetch"
    /\ \E reply \in FetchReplies(task[t].match[1], Brand(t)) :
          /\ task' = [task EXCEPT ![t] = FetchStep(Brand(t), Entry(t), task[t], reply)]
          /\ Logged(t, reply)
    /\ UNCHANGED <<reqs, rq, cache>>

\* line 780
NaturalNq(t) ==
    /\ task[t].pc = "nl_nq"
    /\ \E reply \in NaturalReplies(NaturalText(Brand(t), Entry(t).nutritionix_query)) :
          /\ task' = [task EXCEPT ![t] =
                         LoopHead(Brand(t), Entry(t),
                                  [task[t] EXCEPT !.nutrients = _natural_search_best(Brand(t), reply)])]
          /\ Logged(t, reply)
    /\ UNCHANGED <<reqs, rq, cache>>

\* lines 786-789
RefineSearch(t) ==
    /\ task[t].pc = "refine_search"
    /\ \E reply \in SearchReplies(task[t].det_q) :
          /\ task' = [task EXCEPT ![t] =
                         RefineStep(Brand(t), task[t],
                                    _instant_search_best(Brand(t), Entry(t), reply))]
          /\ Logged(t, reply)
    /\ UNCHANGED <<reqs, rq, cache>>

\* line 790: outside every try
RefineFetch(t) ==
    /\ task[t].pc = "refine_fetch"
    /\ \E reply \in FetchReplies(task[t].match[1], Brand(t)) :
          /\ task' = [task EXCEPT ![t] = RefineFetchStep(Brand(t), Entry(t), task[t], reply)]
          /\ Logged(t, reply)
    /\ UNCHANGED <<reqs, rq, cache>>

\* line 792
RefineNatural(t) ==
    /\ task[t].pc = "refine_nl"
    /\ \E reply \in NaturalReplies(NaturalText(Brand(t), task[t].det_q)) :
          /\ task' = [task EXCEPT ![t] =
                         LoopHead(Brand(t), Entry(t),
                                  [task[t] EXCEPT !.nutrients = _natural_search_best(Brand(t), reply)])]
          /\ Logged(t, reply)
    /\ UNCHANGED <<reqs, rq, cache>>

\* lines 801-804
StrictSearch(t) ==
    /\ task[t].pc = "strict_search"
    /\ \E reply \in SearchReplies(StrictQ(Brand(t))) :
          /\ task' = [task EXCEPT ![t] =
                         StrictStep(Brand(t), task[t],
                                    _instant_search_best(Brand(t), Entry(t), reply))]
          /\ Logged(t, reply)
    /\ UNCHANGED <<reqs, rq, cache>>

\* line 805, left operand
StrictFetch(t) ==
    /\ task[t].pc = "strict_fetch"
    /\ \E reply \in FetchReplies(task[t].match[1], Brand(t)) :
          /\ task' = [task EXCEPT ![t] = StrictFetchStep(Brand(t), task[t], reply)]
          /\ Logged(t, reply)
    /\ UNCHANGED <<reqs, rq, cache>>

\* line 805, right operand
StrictNatural(t) ==
    /\ task[t].pc = "strict_nl"
    /\ \E reply \in NaturalReplies(NaturalText(Brand(t), StrictQ(Brand(t)))) :
          /\ task' = [task EXCEPT ![t] =
                         [task[t] EXCEPT !.nutrients = _natural_search_best(Brand(t), reply),
                                         !.pc = "finish"]]
          /\ Logged(t, reply)
    /\ UNCHANGED <<reqs, rq, cache>>

\* lines 808-823 and the append of line 829
Finish(t) ==
    /\ task[t].pc = "finish"
    /\ LET result == MakeResult(Entry(t), task[t].match, task[t].nutrients)
       IN  /\ task' = [task EXCEPT ![t] = [task[t] EXCEPT !.pc = "done", !.result = Some(result)]]
           /\ cache' = CachePut(cache, task[t].key, result)
           /\ Collect(t, result)
    /\ hist' = [hist EXCEPT ![t].req = "", ![t].dropped = EmptyFood, ![t].origin = NoOrigin]
    /\ UNCHANGED reqs

Next ==
    \/ \E r \in Requests : PipelineCall(r)
    \/ \E r \in Requests : EndpointCall(r)
    \/ \E r \in Requests : Itemize(r)
    \/ \E r \in Requests : ItemizeFails(r)
    \/ \E r \in Requests : ReturnBatch(r)
    \/ \E t \in Live : CacheCheck(t)
    \/ \E t \in Live : DetSearch(t)
    \/ \E t \in Live : SeedSearch(t)
    \/ \E t \in Live : SeedBudget(t)
    \/ \E t \in Live : Fetch(t)
    \/ \E t \in Live : NaturalNq(t)
    \/ \E t \in Live : RefineSearch(t)
    \/ \E t \in Live : RefineFetch(t)
    \/ \E t \in Live : RefineNatural(t)
    \/ \E t \in Live : StrictSearch(t)
    \/ \E t \in Live : StrictFetch(t)
    \/ \E t \in Live : StrictNatural(t)
    \/ \E t \in Live : Finish(t)

Spec == Init /\ [][Next]_vars

\* ------------------------------------------------- the worker pool alone
\* What the executor of fetch_nutritionix_macros does with a batch that has
\* more items than workers. The pool sees a worker as busy from the moment it
\* takes an item to the return of process_entry, so the catalog calls of one
\* resolution are taken in one step here.

\* one batch of one item more than the pool has workers, the items alike
ScenPool ==
    <<Call("endpoint", "RESTAURANT", "", "", [i \in 1..(MaxWorkers + 1) |-> BatchItem(1)])>>

InitPool ==
    /\ reqs = ScenPool
    /\ rq = [r \in DOMAIN reqs |->
                [state |-> "new", itemized |-> FALSE, restaurant_name |-> "", results |-> <<>>]]
    /\ task = [t \in {<<r, i>> : r \in DOMAIN reqs, i \in 1..(MaxWorkers + 1)} |-> IdleTask]
    /\ hist = [t \in DOMAIN task |-> NoCalls]
    /\ cache = <<>>

\* lines 777-823 and the append of line 829: process_entry from its first
\* catalog call to its return. What the resolution finds plays no part in what
\* the pool does; it ends unresolved here.
ProcessEntry(t) ==
    /\ Running(t)
    /\ LET result == MakeResult(Entry(t), None, None)
       IN  /\ task' = [task EXCEPT ![t] =
                           [task[t] EXCEPT !.pc = "done", !.result = Some(result),
                                           !.seeds = <<>>, !.seed_i = 0]]
           /\ cache' = CachePut(cache, task[t].key, result)
           /\ Collect(t, result)
    /\ UNCHANGED <<reqs, hist>>

NextPool ==
    \/ \E r \in Requests : EndpointCall(r)
    \/ \E r \in Requests : Itemize(r)
    \/ \E r \in Requests : ReturnBatch(r)
    \/ \E t \in Live : CacheCheck(t)
    \/ \E t \in Live : ProcessEntry(t)

SpecPool == InitPool /\ [][NextPool]_vars

\* ---------------------------------------------------------------- claims

Specific(brand) == brand # "" /\ ~_is_generic_brand(brand)

\* the position of each kind of text search in the order of one resolution
SearchRank == [det |-> 1, seed |-> 2, refine |-> 3, strict |-> 4]

\* C1, as stated: for an item resolved with a specific brand, every nutrient
\* record accepted into the result has a normalized brand equal to the
\* normalized requested brand.
C1_BrandEqual ==
    \A t \in Live :
        (task[t].pc = "done" /\ Specific(Brand(t))) =>
            \A rec \in Range(task[t].result[1].macros) :
                _norm_brand(rec.brand_name) = _norm_brand(Brand(t))

\* C1, amended: for an item resolved with a specific brand, every accepted
\* nutrient record (the local `nutrients` of the resolution, the macros of its
\* result) either carries no brand or has a normalized brand equal to the
\* normalized requested brand.
C1_BrandLock ==
    \A t \in Live :
        Specific(Brand(t)) =>
            \A rec \in Range(task[t].nutrients) \cup
                        (IF task[t].result = None THEN {} ELSE Range(task[t].result[1].macros)) :
                rec.brand_name = "" \/ _norm_brand(rec.brand_name) = _norm_brand(Brand(t))

\* a result of a McDonald's item whose record carries no brand
C1_Witness ==
    \E t \in Live :
        /\ task[t].pc = "done" /\ Specific(Brand(t))
        /\ task[t].result[1].macros # None
        /\ task[t].result[1].macros[1].brand_name = ""

\* C2, as stated: the quantity of the result returned for an item equals the
\* item's input quantity, results served from the cache included.
C2_QuantityPreserved ==
    \A t \in Live :
        task[t].pc = "done" => task[t].result[1].quantity = Entry(t).quantity

\* C3, as stated: an exception raised by a catalog call of an item never
\* aborts the batch: a batch call raises only when itemization raised, before
\* any task ran, and a batch whose tasks all ended returns one result per item.
C3_NoBatchAbort ==
    \A r \in Requests :
        /\ rq[r].state = "raised" => \A t \in TasksOf(r) : task[t].pc = "idle"
        /\ (rq[r].state = "running" /\ \A t \in TasksOf(r) : Terminal(t))
               => Len(rq[r].results) = Len(reqs[r].items)

\* C4: in a batch of N items whose tasks all ended, when every catalog call
\* made for one item failed and every other item resolved with nutrients, the
\* batch raises nothing, holds exactly N results, and the failing item's
\* result, the only one without nutrients, has macros None.
C4_FailingItemUnresolved ==
    \A r \in Requests : \A t \in TasksOf(r) :
        ( /\ Terminal(t) /\ hist[t].made /\ ~hist[t].any_ok
          /\ \A u \in TasksOf(r) \ {t} :
                task[u].pc = "done" /\ task[u].result[1].macros # None )
        => /\ task[t].pc = "done"
           /\ task[t].result[1].macros = None
           /\ rq[r].state \in {"running", "returned"}
           /\ Len(rq[r].results) = Len(reqs[r].items)
           /\ \E i \in 1..Len(rq[r].results) : rq[r].results[i] = task[t].result[1]
           /\ Cardinality({i \in 1..Len(rq[r].results) : rq[r].results[i].macros = None}) = 1

\* a returned batch of several items, one of which had all its calls fail
C4_Witness ==
    \E r \in Requests : \E t \in TasksOf(r) :
        /\ rq[r].state = "returned" /\ Len(reqs[r].items) > 1
        /\ hist[t].made /\ ~hist[t].any_ok
        /\ \A u \in TasksOf(r) \ {t} : task[u].result[1].macros # None

\* C5: a resolution that finds its key in the cache ends at once with the
\* cached value as its result; the step issues no catalog call and leaves the
\* cache as it is.
C5_CacheHit ==
    [][\A t \in Live :
          ( /\ task[t].pc = "queued" /\ task'[t].pc # "queued"
            /\ _cache_key_for_item(Brand(t), Entry(t).item_name, Entry(t).description)
                   \in DOMAIN cache )
          => /\ task'[t].pc = "done"
             /\ task'[t].result =
                    Some(cache[_cache_key_for_item(Brand(t), Entry(t).item_name,
                                                   Entry(t).description)])
             /\ hist' = hist /\ hist[t] = NoCalls
             /\ cache' = cache]_vars

\* a resolution served from the cache: done without any call
C5_Witness ==
    \E t \in Live :
        /\ task[t].pc = "done" /\ ~hist[t].made
        /\ task[t].key \in DOMAIN cache /\ task[t].result = Some(cache[task[t].key])

\* C6, as stated: two returned batches that share an item of one key report
\* equal results for it (compared on the match and the macros), and the cache
\* holds a value for the key.
C6_ValueEqual ==
    \A t1 \in Live : \A t2 \in Live :
        ( /\ t1[1] # t2[1] /\ task[t1].key = task[t2].key
          /\ rq[t1[1]].state = "returned" /\ rq[t2[1]].state = "returned" )
        => /\ task[t1].key \in DOMAIN cache
           /\ task[t1].result[1].macros = task[t2].result[1].macros
           /\ task[t1].result[1].nutritionix_match = task[t2].result[1].nutritionix_match

\* C6, amended: the cache holds one value per key, the result of the
\* resolution that wrote it last; every finished resolution of the key left
\* the key cached, a resolution that found the key cached reports the result
\* of a resolution that missed, and the resolutions that missed may differ.
C6_LastWriteWins ==
    /\ [](\A t \in Live :
            task[t].pc = "done" =>
                /\ task[t].key \in DOMAIN cache
                /\ \E u \in Live :
                      /\ task[u].pc = "done" /\ task[u].key = task[t].key /\ hist[u].made
                      /\ cache[task[t].key] = task[u].result[1]
                /\ ~hist[t].made =>
                      \E u \in Live :
                          /\ task[u].pc = "done" /\ task[u].key = task[t].key /\ hist[u].made
                          /\ task[u].result = task[t].result)
    /\ [][\A t \in Live :
             (task[t].pc = "finish" /\ task'[t].pc = "done")
                 => cache'[task[t].key] = task'[t].result[1]]_vars

\* two batches that both missed the cache and report different macros
C6_Witness ==
    \E t1 \in Live : \E t2 \in Live :
        /\ t1[1] # t2[1] /\ task[t1].key = task[t2].key
        /\ rq[t1[1]].state = "returned" /\ rq[t2[1]].state = "returned"
        /\ hist[t1].made /\ hist[t2].made
        /\ task[t1].result[1].macros # task[t2].result[1].macros

\* C7, as stated: a batch call whose dish is not restaurant-sourced attempts
\* no resolution: no itemization, no task, no catalog call, no cache write.
C7_NotRestaurantRejected ==
    \A r \in Requests :
        reqs[r].source # "RESTAURANT" =>
            /\ rq[r].state \in {"new", "error"}
            /\ ~rq[r].itemized
            /\ \A t \in TasksOf(r) : task[t].pc = "idle" /\ ~hist[t].made

C9_EndsInDone == \A t \in Live : Terminal(t) => task[t].pc = "done"

\* C10: within one resolution the text searches come in the order
\* deterministic, seed, refinement (the strict retry last): no search of an
\* earlier kind follows a search of a later kind.
C10_SearchOrder ==
    \A t \in Live :
        \A i \in 1..Len(hist[t].searches) : \A j \in 1..Len(hist[t].searches) :
            i < j => SearchRank[hist[t].searches[i]] < SearchRank[hist[t].searches[j]]

\* a resolution that went through the three kinds of search
C10_Witness == \E t \in Live : hist[t].searches = <<"det", "seed", "refine">>

\* C11: within one batch, the resolutions running at one moment are never
\* more than min(8, number of items of the batch)
C11_PoolBound ==
    \A r \in Requests :
        Cardinality(RunningOf(r)) <= Min(8, Len(reqs[r].items))

\* every worker of the pool is busy and an item waits for one
C11_Witness ==
    \E r \in Requests :
        /\ Len(reqs[r].items) > 8
        /\ Cardinality(RunningOf(r)) = 8
        /\ \E t \in TasksOf(r) : task[t].pc = "queued"

\* C12: a resolution reads the cache before it issues any catalog call; when
\* a resolution that missed completes, the cache holds under the item's key
\* the result it returns, an unresolved result as well; a resolution that
\* reads a cached key, resolved or not, is served that value without a call.
C12_CacheFirst ==
    /\ [](\A t \in Live :
            /\ task[t].pc \in {"idle", "queued"} => hist[t] = NoCalls /\ task[t].key = ""
            /\ hist[t].made => task[t].key # ""
            /\ (task[t].pc = "done" /\ hist[t].made) => task[t].key \in DOMAIN cache)
    /\ [][\A t \in Live :
             /\ (task[t].pc = "finish" /\ task'[t].pc = "done")
                    => /\ task[t].key \in DOMAIN cache'
                       /\ Some(cache'[task[t].key]) = task'[t].result
                       /\ rq'[t[1]].results # rq[t[1]].results
                              => rq'[t[1]].results = Append(rq[t[1]].results, cache'[task[t].key])
             /\ (task[t].pc = "queued" /\ task'[t].pc # "queued"
                    /\ task'[t].key \in DOMAIN cache)
                    => /\ task'[t].pc = "done" /\ hist'[t] = NoCalls
                       /\ task'[t].result = Some(cache[task'[t].key])]_vars

\* an unresolved result was cached and a later resolution of the key was
\* served it without any call
C12_Witness ==
    \E t \in Live :
        /\ task[t].pc = "done" /\ ~hist[t].made
        /\ task[t].result[1].macros = None
        /\ cache[task[t].key].macros = None
        /\ \E u \in Live : u # t /\ task[u].pc = "done" /\ hist[u].made /\ task[u].key = task[t].key

\* C13, as stated: the result of a plain McDonald's cheeseburger never
\* carries a record of more than 450 kcal, whatever path produced it.
C13_NoImplausibleRecord ==
    \A t \in Live :
        ( /\ task[t].pc = "done"
          /\ _norm_brand(Brand(t)) = "mcdonalds"
          /\ Lower(Entry(t).item_name) = "cheeseburger"
          /\ task[t].result[1].macros # None )
        => task[t].result[1].macros[1].calories <= CalorieLimit

\* C14, as stated: for an item categorized as a soft drink, the candidate
\* selected from the hits of a text search is never a coffee drink when the
\* hits also hold a candidate that is not a coffee drink and whose keyword
\* overlap with the item is equal or lower.
C14_NoCoffeeForSoftDrink ==
    \A t \in Live :
        LET hits       == Range(hist[t].hits.branded) \cup Range(hist[t].hits.common)
            include    == _derive_expectations(Entry(t).item_name, Entry(t).category,
                                               Entry(t).required_keywords,
                                               Entry(t).forbidden_keywords).include
            overlap(c) == Cardinality({kw \in include : Contains(kw, Lower(c.food_name))})
                          + TokenOverlap(Entry(t).item_name, Lower(c.food_name))
            coffee(c)  == _parse_candidate_modifiers(c.food_name).drink_type = "coffee"
        IN  ( /\ Entry(t).category = "drink"
              /\ task[t].pc = "fetch"
              /\ task[t].match = BestTable[Brand(t), Entry(t), hist[t].hits]
              /\ _parse_expected_from_item(Entry(t).item_name, Entry(t).description,
                                           Entry(t).category).drink_type = "soft_drink"
              /\ coffee(task[t].match[1]) )
            => ~\E c \in hits : ~coffee(c) /\ overlap(c) <= overlap(task[t].match[1])

\* C15: for an item named plain "Cheeseburger", of any brand, the candidate
\* "<brand> Cheeseburger" (or plain "Cheeseburger") scores strictly more than
\* every candidate whose name adds a larger-variant token (double, quarter,
\* big mac) to it. Stated where the scores are used: at each text search.
C15_PlainBeatsLarger ==
    \A t \in Live :
        (task[t].pc \in DOMAIN SearchKind /\ Entry(t).item_name = "Cheeseburger") =>
            \A c \in CatalogHits : \A d \in CatalogHits :
                ( /\ Lower(c.food_name) \in {"cheeseburger", Lower(Brand(t)) \o " cheeseburger"}
                  /\ Contains("cheeseburger", Lower(d.food_name))
                  /\ ContainsAny({"double", "quarter", "big mac"}, Lower(d.food_name)) )
                => ScoreOf(Entry(t), c) > ScoreOf(Entry(t), d)

\* a plain cheeseburger of BrandX was matched with "BrandX Cheeseburger",
\* which the catalog listed after the larger variants
C15_Witness ==
    \E t \in Live :
        /\ Entry(t).item_name = "Cheeseburger" /\ Brand(t) = "BrandX"
        /\ hist[t].hits = Catalog.x
        /\ task[t].match = Some(Hit("BrandX Cheeseburger", "BrandX", "x1"))
        /\ \E d \in Range(hist[t].hits.branded) :
              /\ Contains("double", Lower(d.food_name))
              /\ ScoreOf(Entry(t), d) < ScoreOf(Entry(t), task[t].match[1])

\* C16, as stated: for a nugget item whose name, description or portion text
\* states a piece count N, the count extracted is N and the canonical query
\* is the nugget template of the brand with N: "<brand> Chicken McNuggets N
\* Piece" for McDonald's, "<brand> chicken nuggets N piece" otherwise.
C16_NuggetCount ==
    \A t \in Live : \A n \in {"6", "10"} :
        LET e    == Entry(t)
            text == e.item_name \o " " \o e.description \o " " \o e.portion_detail
        IN  ( /\ task[t].det_q # ""
              /\ Contains("nugget", Lower(e.item_name))
              /\ Contains(n, text) )
            => /\ _parse_expected_from_item(e.item_name,
                                            e.description \o " " \o e.portion_detail,
                                            e.category).count = n
               /\ task[t].det_q =
                      IF _norm_raw(Brand(t)) = "mcdonalds"
                      THEN Brand(t) \o " Chicken McNuggets " \o n \o " Piece"
                      ELSE Brand(t) \o " chicken nuggets " \o n \o " piece"

C18_AcceptedBrandEqual ==
    \A t \in Live :
        (task[t].match # None /\ Specific(Brand(t)))
            => _norm_brand(task[t].match[1].brand_name) = _norm_brand(Brand(t))

\* C19: the seed search keeps one best candidate across its queries, the
\* first one on equal scores; after a query whose best candidate scores 7 or
\* more it issues no further query; the candidate it returns is the kept one,
\* whose score is the maximum of the bests of the queries issued.
C19_SeedSearchKeepsBest ==
    /\ [](\A t \in Live :
            task[t].pc = "seed" =>
                /\ task[t].best_score < 7
                /\ IF task[t].best_overall = None
                   THEN task[t].best_score = MinScore
                   ELSE task[t].best_score = ScoreOf(Entry(t), task[t].best_overall[1]))
    /\ [][\A t \in Live :
             (task[t].pc = "seed" /\ task'[t] # task[t]) =>
                LET cand == BestTable[Brand(t), Entry(t), hist'[t].hits]
                    keep == IF cand = None THEN TRUE
                            ELSE ScoreOf(Entry(t), cand[1]) <= task[t].best_score
                    best == IF keep THEN task[t].best_overall ELSE cand
                IN  \/ /\ task'[t].pc = "seed"
                       /\ task'[t].seed_i = task[t].seed_i + 1
                       /\ task'[t].best_overall = best
                       /\ cand # None => ScoreOf(Entry(t), cand[1]) < 7
                    \/ /\ task'[t].pc # "seed"
                       /\ task'[t].match = best
                       /\ \/ cand # None /\ ScoreOf(Entry(t), best[1]) >= 7
                          \/ task[t].seed_i = Len(task[t].seeds)
                    \/ /\ task'[t].pc # "seed"
                       /\ task[t].seed_i > 1
                       /\ task'[t].match = task[t].best_overall]_vars

\* two seed queries gave candidates of equal score below 7 and the search
\* returned the first
C19_Witness ==
    \E t \in Live :
        /\ hist[t].searches = <<"seed">> /\ task[t].pc = "fetch"
        /\ hist[t].hits = Catalog.xtra
        /\ task[t].match = Some(Hit("BrandX Cheeseburger", "BrandX", "x1"))
        /\ ScoreOf(Entry(t), task[t].match[1])
               = ScoreOf(Entry(t), Hit("BrandXtra Cheeseburger", "BrandXtra", "xt1"))

C21_LookupByIdentifier ==
    [][\A t \in Live :
          (task[t].pc \in FetchPcs /\ task'[t] # task[t])
              => hist'[t].req = IF task[t].match[1].nix_item_id # "" THEN "item" ELSE "natural"]_vars

\* a candidate with an identifier was looked up by it and the record is the
\* one the result is built with
C21_Witness ==
    \E t \in Live :
        /\ task[t].pc = "finish"
        /\ hist[t].origin.kind = "item"
        /\ hist[t].origin.for # None
        /\ hist[t].origin.for[1].nix_item_id # ""

\* C22: a fetched nutrient record is thrown away because of its brand only
\* when the brand of the item is specific; with an absent or generic brand no
\* record, fetched by id or by free text, is thrown away for its brand.
C22_BrandDiscardOnlySpecific ==
    \A t \in Live :
        /\ hist[t].dropped # EmptyFood
        /\ IF hist[t].req = "item"
           THEN BrandContradicts(TRUE, Brand(t), hist[t].dropped)
           ELSE NaturalContradicts(Brand(t), hist[t].dropped)
        => ~_is_generic_brand(Brand(t))

\* C23: the item_name of a result differs from the item_name of the input
\* only when the input name is a placeholder, and is then the food_name of
\* the match or else of the nutrient record; in every other case, a result
\* served from the cache included, it is the input name.
C23_NamePreserved ==
    \A t \in Live :
        (task[t].pc = "done" /\ task[t].result[1].item_name # Entry(t).item_name)
            => /\ IsPlaceholder(Entry(t).item_name)
               /\ task[t].result[1].item_name =
                      IF task[t].result[1].nutritionix_match # None
                      THEN task[t].result[1].nutritionix_match[1].food_name
                      ELSE task[t].result[1].macros[1].food_name

\* C24: the drink_type read from an item's text is coffee when the text has
\* a coffee marker, otherwise soft_drink when the category is drink or the
\* text has one of drink, cola, coke, sprite, soda, otherwise none.
C24_DrinkType ==
    \A t \in Live :
        task[t].pc \in DOMAIN SearchKind
            => \A category \in {Entry(t).category, ""} :
                  LET text == Lower(Entry(t).item_name \o " " \o Entry(t).description)
                  IN  _parse_expected_from_item(Entry(t).item_name, Entry(t).description,
                                                category).drink_type
                        = IF ContainsAny({"coffee", "iced coffee", "latte", "mccafe"}, text)
                          THEN "coffee"
                          ELSE IF \/ category = "drink"
                                  \/ ContainsAny({"drink", "cola", "coke", "sprite", "soda"}, text)
                          THEN "soft_drink"
                          ELSE ""

\* C25: the score of a candidate holds, besides the keyword, qualifier and
\* burger terms, the number of lower-cased word tokens that the item name and
\* the candidate name share.
C25_SharedWordTokens ==
    \A t \in Live :
        (task[t].pc = "fetch" /\ task[t].match # None)
            => LET Alnum(c) == c \in CharSet(LOWER) \cup CharSet(DIGITS)
                   Words(s) ==
                       {SubSeq(s, i, j) : <<i, j>> \in
                           {p \in (1..Len(s)) \X (1..Len(s)) :
                               /\ p[1] <= p[2]
                               /\ \A k \in p[1]..p[2] : Alnum(CharAt(s, k))
                               /\ p[1] = 1 \/ ~Alnum(CharAt(s, p[1] - 1))
                               /\ p[2] = Len(s) \/ ~Alnum(CharAt(s, p[2] + 1))}}
                   e    == Entry(t)
                   food == Lower(task[t].match[1].food_name)
               IN  ScoreOf(e, task[t].match[1])
                     = KeywordScore(food,
                                    _derive_expectations(e.item_name, e.category,
                                        e.required_keywords, e.forbidden_keywords),
                                    e.description)
                       + Cardinality(Words(Lower(e.item_name)) \cap Words(food))
                       + QualifierPenalty(
                             _parse_expected_from_item(e.item_name, e.description, e.category),
                             _parse_candidate_modifiers(task[t].match[1].food_name))
                       + BurgerPenalty(Lower(e.item_name), food)

\* C26: the list of seed queries searched for an item has no query twice, has
\* at most 8 queries, and starts with the baseline seeds brand+name+
\* description, brand+name and the bare name, in this order, each written
\* once.
C26_SeedList ==
    \A t \in Live :
        task[t].pc = "seed"
            => LET seeds  == task[t].seeds
                   first  == Strip(Brand(t) \o " " \o Entry(t).item_name \o " "
                                      \o Entry(t).description)
                   second == Strip(Brand(t) \o " " \o Entry(t).item_name)
                   third  == Strip(Entry(t).item_name)
                   two    == IF second = first THEN <<first>> ELSE <<first, second>>
                   base   == IF third \in Range(two) THEN two ELSE Append(two, third)
               IN  /\ \A i, j \in 1..Len(seeds) : seeds[i] = seeds[j] => i = j
                   /\ Len(seeds) <= 8
                   /\ Len(seeds) >= Len(base)
                   /\ SubSeq(seeds, 1, Len(base)) = base

\* the seed loop runs on a list cut to 8 queries from a longer one
C26_Witness ==
    \E t \in Live :
        /\ task[t].pc = "seed"
        /\ Len(task[t].seeds) = 8
        /\ Len(_generate_item_queries(Brand(t), Entry(t).item_name, Entry(t).description)) > 8
        /\ task[t].seeds[3] = Entry(t).item_name

\* C27: the query of a refinement attempt holds "Iced Coffee" only when it
\* is the canonical query composed for an item whose name, description or
\* portion has a coffee cue; the drink category or a drink keyword alone
\* never gives an "Iced Coffee" query.
C27_CoffeeOnlyOnCue ==
    \A t \in Live :
        (task[t].pc = "refine_search" /\ Contains("Iced Coffee", task[t].det_q))
            => LET e == Entry(t)
               IN  /\ task[t].det_q = _build_nutritionix_query_for_item(Brand(t), e)
                   /\ ContainsAny({"coffee", "latte", "mccafe"},
                          Lower(e.item_name \o " " \o e.description
                                    \o " " \o e.portion_detail))

\* a coffee query was composed for an item with a coffee cue
C27_Witness ==
    \E t \in Live :
        /\ task[t].pc = "refine_search"
        /\ Entry(t).item_name = "Iced Coffee"
        /\ task[t].det_q = "McDonald's Iced Coffee"
        /\ task[t].det_q = _build_nutritionix_query_for_item(Brand(t), Entry(t))

\* C28: no step removes a cache entry; an entry is written only by the step
\* that completes a resolution of its key, and such a resolution had missed
\* the cache when it checked it; a resolution that checks the cache after the
\* key was written ends at once, writes nothing and never acts again. So an
\* entry is overwritten only by a resolution that overlapped the first
\* writer, and the last write stays.
C28_WriteOncePerKey ==
    [][/\ DOMAIN cache \subseteq DOMAIN cache'
       /\ \A k \in DOMAIN cache' :
              (k \notin DOMAIN cache \/ cache'[k] # cache[k])
                  => \E t \in Live :
                        /\ task[t].pc = "finish" /\ task'[t].pc = "done"
                        /\ task[t].key = k
                        /\ hist[t].made
                        /\ cache'[k] = task'[t].result[1]
       /\ \A t \in Live :
              /\ (task[t].pc = "queued" /\ task'[t].pc # "queued")
                     => IF task'[t].key \in DOMAIN cache
                        THEN task'[t].pc = "done" /\ cache' = cache
                        ELSE task'[t].pc # "done" /\ cache' = cache
              /\ task[t].pc = "done" => task'[t] = task[t]]_vars

\* two overlapping resolutions of one key have both written it: the entry is
\* the result of one and differs from the result of the other
C28_Witness ==
    \E t1 \in Live : \E t2 \in Live :
        /\ t1 # t2 /\ task[t1].key = task[t2].key
        /\ task[t1].pc = "done" /\ task[t2].pc = "done"
        /\ hist[t1].made /\ hist[t2].made
        /\ cache[task[t1].key] = task[t2].result[1]
        /\ cache[task[t1].key] # task[t1].result[1]

\* C29: for an item whose name has "cheeseburger" and neither "double" nor
\* "mcdouble", the match of the final result, whichever search gave it, is
\* never a candidate whose name has "double", "quarter" or "big mac".
C29_PlainCheeseburgerMatch ==
    \A t \in Live :
        ( /\ task[t].pc = "done"
          /\ task[t].result[1].nutritionix_match # None
          /\ ContainsAny({"double", "quarter", "big mac"},
                         Lower(task[t].result[1].nutritionix_match[1].food_name)) )
        => ~( /\ Contains("cheeseburger", Lower(Entry(t).item_name))
              /\ ~Contains("double", Lower(Entry(t).item_name)) )

\* a plain cheeseburger was matched by a search whose hits held a larger
\* burger first
C29_Witness ==
    \E t \in Live :
        /\ task[t].pc = "done"
        /\ Lower(Entry(t).item_name) = "cheeseburger"
        /\ task[t].result[1].nutritionix_match # None
        /\ hist[t].hits.branded # <<>>
        /\ Contains("double", Lower(hist[t].hits.branded[1].food_name))
        /\ task[t].result[1].nutritionix_match[1] \in Range(hist[t].hits.branded)

\* C30, as stated: when a resolution builds its result (line 815) with a
\* match and a nutrient record, the record was obtained by a nutrient request
\* for that match, by its id or by its food name.
C30_RecordOfMatch ==
    \A t \in Live :
        ( /\ task[t].pc = "finish"
          /\ task[t].match # None
          /\ task[t].nutrients # None )
        => /\ hist[t].origin.kind \in {"item", "natural"}
           /\ hist[t].origin.for = task[t].match

\* C30, amended: a free-text lookup of a query text (the item's query or the
\* canonical query) is made only while no record is held; when a result is
\* built with a match and a record, the record was obtained by a nutrient
\* request for the reported match, or by a free-text lookup of a query text
\* made after the request for a match gave nothing, or, when the strict retry
\* replaced the match and its nutrient request raised, by the request that
\* preceded it.
C30_RecordOrigin ==
    \A t \in Live :
        /\ task[t].pc \in {"nl_nq", "refine_nl"} => task[t].nutrients = None
        /\ ( /\ task[t].pc = "finish"
             /\ task[t].match # None
             /\ task[t].nutrients # None )
           => \/ /\ hist[t].origin.kind \in {"item", "natural"}
                 /\ hist[t].origin.for = task[t].match
              \/ /\ hist[t].origin.kind = "query"
                 /\ hist[t].origin.for = None
                 /\ hist[t].req = "query"
              \/ /\ hist[t].origin.kind # ""
                 /\ hist[t].searches[Len(hist[t].searches)] = "strict"
                 /\ hist[t].req \in {"item", "natural"}
                 /\ hist[t].dropped = EmptyFood

\* a result whose match was fetched in vain and whose record is the answer to
\* a free-text lookup of a query text
C30_Witness ==
    \E t \in Live :
        /\ task[t].pc = "finish"
        /\ task[t].match # None
        /\ task[t].nutrients # None
        /\ hist[t].origin.kind = "query"
====
